---- MODULE Spec2Model ----
(***************************************************************************)
(* Model of plugins/tool-output-truncator.js: the text reduction engine    *)
(* (size metrics, duplicate-line and repeated-block compression, head/tail *)
(* line truncation, hard cap) and its orchestrator reduceText.             *)
(*                                                                         *)
(* A JavaScript string is a sequence of UTF-16 code units; here a text is  *)
(* a sequence of characters, each written as a one-token string.  Indices  *)
(* in the translated helpers are 0-based as in the source.                 *)
(***************************************************************************)
EXTENDS Integers, Sequences, FiniteSets, TLC

VARIABLES call, text, limits, keepArgs, pc, currentText, compressionMeta, ret,
          input, output,
          renamedOnce, inFlight, toastShown, missingKeyToastShown, tasks,
          userMessages, storedTextLen, titleUpdates

\* The arguments of the "tool.execute.after" hook.
hookVars == <<input, output>>

\* session-auto-rename.js: the module's collections, the plugin's flag, the rename
\* tasks (the promises of maybeRenameOnFirstMessage).
pluginVars == <<renamedOnce, inFlight, toastShown, missingKeyToastShown, tasks>>

\* What the opencode server stores per session: the number of user messages, the
\* length of the first user message's text, and the number of title updates applied.
serverVars == <<userMessages, storedTextLen, titleUpdates>>

renameVars == <<pluginVars, serverVars>>

\* What a call of the reduction engine does not touch.
outsideReduce == <<hookVars, renameVars>>

\* The variables of the reduction engine and of its hook.
truncatorVars ==
  <<call, text, limits, keepArgs, pc, currentText, compressionMeta, ret, hookVars>>

vars == <<truncatorVars, renameVars>>

-----------------------------------------------------------------------------
(* Characters and string primitives                                        *)

NL == "\n"

\* Two characters outside ASCII: U+00E9 takes 2 bytes in UTF-8, U+20AC takes 3.
Char2 == "U+00E9"
Char3 == "U+20AC"

Min(a, b) == IF a <= b THEN a ELSE b
Max(a, b) == IF a >= b THEN a ELSE b

\* Buffer.byteLength of one BMP character.
utf8Len(c) == IF c = Char2 THEN 2 ELSE IF c = Char3 THEN 3 ELSE 1

\* Buffer.byteLength(text, "utf8"): the sum of utf8Len over the characters, counted
\* as one byte each plus the extra bytes of the wider ones.
byteLength(t) ==
  Len(t) + Cardinality({i \in 1..Len(t) : utf8Len(t[i]) >= 2})
         + Cardinality({i \in 1..Len(t) : utf8Len(t[i]) >= 3})

\* String.prototype.indexOf(ch, from): first 0-based index >= from, or -1.
indexOf(t, ch, from) ==
  LET hits == {i \in from..(Len(t) - 1) : t[i + 1] = ch} IN
    IF hits = {} THEN -1 ELSE CHOOSE i \in hits : \A j \in hits : i <= j

\* String.prototype.lastIndexOf(ch, from): last 0-based index <= from, or -1.
lastIndexOf(t, ch, from) ==
  LET hits == {i \in 0..from : t[i + 1] = ch} IN
    IF hits = {} THEN -1 ELSE CHOOSE i \in hits : \A j \in hits : j <= i

\* String.prototype.slice(a, b) for 0 <= a; b is clamped to the length.
slice(t, a, b) == SubSeq(t, a + 1, Min(b, Len(t)))

\* String(n) for a non-negative integer: its decimal digits.
DigitChar(d) == <<"0", "1", "2", "3", "4", "5", "6", "7", "8", "9">>[d + 1]

RECURSIVE numberToString(_)
numberToString(n) ==
  IF n < 10 THEN <<DigitChar(n)>>
  ELSE numberToString(n \div 10) \o <<DigitChar(n % 10)>>

\* Array.prototype.join("\n")
RECURSIVE join(_)
join(ls) ==
  IF Len(ls) = 0 THEN <<>>
  ELSE IF Len(ls) = 1 THEN ls[1]
  ELSE ls[1] \o <<NL>> \o join(Tail(ls))

\* String.prototype.split("\n")
RECURSIVE splitFrom(_, _, _)
splitFrom(t, start, acc) ==
  LET end == indexOf(t, NL, start) IN
    IF end = -1 THEN Append(acc, slice(t, start, Len(t)))
    ELSE splitFrom(t, end + 1, Append(acc, slice(t, start, end)))

split(t) == splitFrom(t, 0, <<>>)

-----------------------------------------------------------------------------
(* Size metrics                                                            *)

\* The loop adds 1 to count = 1 for every index i whose character is "\n".
countLines(t) ==
  IF Len(t) = 0 THEN 1
  ELSE 1 + Cardinality({i \in 0..(Len(t) - 1) : t[i + 1] = NL})

RECURSIVE sliceHeadLoop(_, _, _, _)
sliceHeadLoop(t, keep, newlineCount, idx) ==
  IF newlineCount < keep
    THEN LET next == indexOf(t, NL, idx + 1) IN
           IF next = -1 THEN t ELSE sliceHeadLoop(t, keep, newlineCount + 1, next)
    ELSE slice(t, 0, idx)

sliceHeadLines(t, keep, totalLines) ==
  IF keep <= 0 THEN <<>>
  ELSE IF keep >= totalLines THEN t
  ELSE sliceHeadLoop(t, keep, 0, -1)

\* The backward scan from index i; the characters that are not "\n" are skipped
\* (`continue`), so each step goes to the next "\n" at or below i.
RECURSIVE sliceTailLoop(_, _, _, _)
sliceTailLoop(t, keep, newlineCount, i) ==
  LET p == lastIndexOf(t, NL, i) IN
    IF p = -1 THEN t
    ELSE IF newlineCount + 1 = keep THEN slice(t, p + 1, Len(t))
    ELSE sliceTailLoop(t, keep, newlineCount + 1, p - 1)

\* A slip: one line too many is kept at the tail.
sliceTailOneMore(t, keep) ==
  IF keep <= 0 THEN <<>> ELSE sliceTailLoop(t, keep + 1, 0, Len(t) - 1)

sliceTailLines(t, keep) ==
  IF keep <= 0 THEN <<>> ELSE sliceTailLoop(t, keep, 0, Len(t) - 1)

getSizeMeta(t) ==
  [totalChars |-> Len(t), totalBytes |-> byteLength(t), totalLines |-> countLines(t)]

\* A slip: a text exactly at a limit counts as over it.
withinLimitsStrict(meta, lim) ==
  /\ meta.totalChars < lim.maxChars
  /\ meta.totalBytes < lim.maxBytes
  /\ meta.totalLines < lim.maxLines

isWithinLimits(meta, lim) ==
  /\ meta.totalChars <= lim.maxChars
  /\ meta.totalBytes <= lim.maxBytes
  /\ meta.totalLines <= lim.maxLines

-----------------------------------------------------------------------------
(* Markers                                                                 *)

\* `${markerPrefix} repeated previous line ${n} more times ${markerPrefix}`
repeatLineMarker(markerPrefix, n) ==
  markerPrefix
    \o <<" ", "r", "e", "p", "e", "a", "t", "e", "d", " ", "p", "r", "e", "v",
         "i", "o", "u", "s", " ", "l", "i", "n", "e", " ">>
    \o numberToString(n)
    \o <<" ", "m", "o", "r", "e", " ", "t", "i", "m", "e", "s", " ">>
    \o markerPrefix

\* `${markerPrefix} repeated previous ${size} lines ${more} more times ${markerPrefix}`
repeatBlockMarker(markerPrefix, size, more) ==
  markerPrefix
    \o <<" ", "r", "e", "p", "e", "a", "t", "e", "d", " ", "p", "r", "e", "v",
         "i", "o", "u", "s", " ">>
    \o numberToString(size)
    \o <<" ", "l", "i", "n", "e", "s", " ">>
    \o numberToString(more)
    \o <<" ", "m", "o", "r", "e", " ", "t", "i", "m", "e", "s", " ">>
    \o markerPrefix

\* `${markerPrefix} omitted ${omitted} lines ${markerPrefix}`
omissionMarker(markerPrefix, omitted) ==
  markerPrefix
    \o <<" ", "o", "m", "i", "t", "t", "e", "d", " ">>
    \o numberToString(omitted)
    \o <<" ", "l", "i", "n", "e", "s", " ">>
    \o markerPrefix

\* `${markerPrefix} truncated to ${maxChars} chars / ${maxBytes} bytes ${markerPrefix}`
hardMarker(markerPrefix, maxChars, maxBytes) ==
  markerPrefix
    \o <<" ", "t", "r", "u", "n", "c", "a", "t", "e", "d", " ", "t", "o", " ">>
    \o numberToString(maxChars)
    \o <<" ", "c", "h", "a", "r", "s", " ", "/", " ">>
    \o numberToString(maxBytes)
    \o <<" ", "b", "y", "t", "e", "s", " ">>
    \o markerPrefix

-----------------------------------------------------------------------------
(* Duplicate-line compressor                                               *)

\* Flush of the run that just ended: the line once, then a marker if it repeated.
flushRun(st, markerPrefix) ==
  LET pushed == Append(st.out, IF st.prevDefined THEN st.prevLine ELSE <<>>) IN
    IF st.repeatCount > 1
      THEN [st EXCEPT !.out = Append(pushed, repeatLineMarker(markerPrefix, st.repeatCount - 1)),
                      !.collapsedLineRuns = @ + 1,
                      !.collapsedLines = @ + (st.repeatCount - 1)]
      ELSE [st EXCEPT !.out = pushed]

\* The scan loop `while (start <= text.length)`.
RECURSIVE dupLoop(_, _, _, _)
dupLoop(t, markerPrefix, start, st) ==
  IF ~(start <= Len(t)) THEN st
  ELSE
    LET found == indexOf(t, NL, start)
        end   == IF found = -1 THEN Len(t) ELSE found
        line  == slice(t, start, end)
        st2   == IF ~st.prevDefined
                   THEN [st EXCEPT !.prevDefined = TRUE, !.prevLine = line, !.repeatCount = 1]
                 ELSE IF line = st.prevLine
                   THEN [st EXCEPT !.repeatCount = @ + 1]
                 ELSE [flushRun(st, markerPrefix) EXCEPT !.prevLine = line, !.repeatCount = 1]
    IN IF end = Len(t) THEN st2 ELSE dupLoop(t, markerPrefix, end + 1, st2)

dupInitialState ==
  [out |-> <<>>, prevDefined |-> FALSE, prevLine |-> <<>>, repeatCount |-> 0,
   collapsedLineRuns |-> 0, collapsedLines |-> 0]

\* A slip: the run still open when the scan ends is pushed without its marker.
dupLastRunUnflushed(t, markerPrefix) ==
  IF Len(t) = 0
    THEN [text |-> t, meta |-> [collapsedLineRuns |-> 0, collapsedLines |-> 0]]
    ELSE LET st == dupLoop(t, markerPrefix, 0, dupInitialState)
             fin == [st EXCEPT !.out = Append(st.out, st.prevLine)]
         IN [text |-> join(fin.out),
             meta |-> [collapsedLineRuns |-> fin.collapsedLineRuns,
                       collapsedLines |-> fin.collapsedLines]]

compressConsecutiveDuplicateLines(t, markerPrefix) ==
  IF Len(t) = 0
    THEN [text |-> t, meta |-> [collapsedLineRuns |-> 0, collapsedLines |-> 0]]
    ELSE LET fin == flushRun(dupLoop(t, markerPrefix, 0, dupInitialState), markerPrefix)
         IN [text |-> join(fin.out),
             meta |-> [collapsedLineRuns |-> fin.collapsedLineRuns,
                       collapsedLines |-> fin.collapsedLines]]

-----------------------------------------------------------------------------
(* Repeated-block compressor                                               *)

blocksEqual(lines, startA, startB, size) ==
  \A i \in 0..(size - 1) : lines[startA + i + 1] = lines[startB + i + 1]

\* `while (i + blocks * size <= lines.length && blocksEqual(...)) blocks++`
RECURSIVE countBlocks(_, _, _, _)
countBlocks(lines, i, size, blocks) ==
  IF i + blocks * size <= Len(lines) /\ blocksEqual(lines, i, i + (blocks - 1) * size, size)
    THEN countBlocks(lines, i, size, blocks + 1)
    ELSE blocks

\* A slip: the block sizes are tried from 2 upwards, so the smallest one wins.
RECURSIVE findMatchUp(_, _, _, _)
findMatchUp(lines, i, size, maxSize) ==
  IF size > maxSize THEN [matchedSize |-> 0, matchedBlocks |-> 0]
  ELSE IF ~blocksEqual(lines, i, i + size, size) THEN findMatchUp(lines, i, size + 1, maxSize)
  ELSE [matchedSize |-> size, matchedBlocks |-> countBlocks(lines, i, size, 2) - 1]

findMatchSmallestFirst(lines, i, size) == findMatchUp(lines, i, 2, size)

\* `for (let size = maxSize; size >= 2; size--)`, entered with size = maxSize.
RECURSIVE findMatch(_, _, _)
findMatch(lines, i, size) ==
  IF size < 2 THEN [matchedSize |-> 0, matchedBlocks |-> 0]
  ELSE IF ~blocksEqual(lines, i, i + size, size) THEN findMatch(lines, i, size - 1)
  ELSE [matchedSize |-> size, matchedBlocks |-> countBlocks(lines, i, size, 2) - 1]

\* `while (i < lines.length)`
RECURSIVE blockLoop(_, _, _, _, _)
blockLoop(lines, markerPrefix, maxBlockSize, i, st) ==
  IF ~(i < Len(lines)) THEN st
  ELSE
    LET remaining == Len(lines) - i
        maxSize   == Min(maxBlockSize, remaining \div 2)
        m         == findMatch(lines, i, maxSize)
        more      == m.matchedBlocks - 1
    IN IF m.matchedSize > 0 /\ m.matchedBlocks >= 2
         THEN blockLoop(lines, markerPrefix, maxBlockSize, i + m.matchedBlocks * m.matchedSize,
                [out |-> st.out \o SubSeq(lines, i + 1, i + m.matchedSize)
                           \o <<repeatBlockMarker(markerPrefix, m.matchedSize, more)>>,
                 collapsedBlocks |-> st.collapsedBlocks + 1,
                 collapsedBlockRepeats |-> st.collapsedBlockRepeats + more])
         ELSE blockLoop(lines, markerPrefix, maxBlockSize, i + 1,
                [st EXCEPT !.out = Append(@, lines[i + 1])])

\* A slip: the scan-size guard is dropped and every text is scanned.
blockCompressUnguarded(t, markerPrefix, maxBlockSize, maxScanLines) ==
  LET fin == blockLoop(split(t), markerPrefix, maxBlockSize, 0,
                       [out |-> <<>>, collapsedBlocks |-> 0, collapsedBlockRepeats |-> 0])
  IN [text |-> join(fin.out),
      meta |-> [collapsedBlocks |-> fin.collapsedBlocks,
                collapsedBlockRepeats |-> fin.collapsedBlockRepeats,
                skipped |-> FALSE]]

compressConsecutiveRepeatedBlocks(t, markerPrefix, maxBlockSize, maxScanLines) ==
  IF countLines(t) > maxScanLines
    THEN [text |-> t,
          meta |-> [collapsedBlocks |-> 0, collapsedBlockRepeats |-> 0, skipped |-> TRUE]]
    ELSE LET fin == blockLoop(split(t), markerPrefix, maxBlockSize, 0,
                              [out |-> <<>>, collapsedBlocks |-> 0, collapsedBlockRepeats |-> 0])
         IN [text |-> join(fin.out),
             meta |-> [collapsedBlocks |-> fin.collapsedBlocks,
                       collapsedBlockRepeats |-> fin.collapsedBlockRepeats,
                       skipped |-> FALSE]]

-----------------------------------------------------------------------------
(* Line-window truncator and hard cap                                      *)

clampInt(value, min, max) == Max(min, Min(max, value))

\* Math.floor(maxLines * 0.15).  For the integers used here the double product
\* never falls below an exact integer value, so it is floor(15 * maxLines / 100).
floorFifteenPercent(maxLines) == (maxLines * 15) \div 100

\* A slip: the desired head is not capped by the number of lines there are.
keepCountsHeadUncapped(totalLines, maxLines) ==
  LET budget == Max(0, maxLines - 1) IN
    IF budget <= 0 THEN [keepHead |-> 0, keepTail |-> 0]
    ELSE LET keepHead == clampInt(floorFifteenPercent(maxLines), 10, 50)
             keepTail == Max(0, Min(totalLines - keepHead, budget - keepHead))
         IN [keepHead |-> keepHead, keepTail |-> keepTail]

computeKeepLineCounts(totalLines, maxLines) ==
  LET budget == Max(0, maxLines - 1) IN
    IF budget <= 0 THEN [keepHead |-> 0, keepTail |-> 0]
    ELSE LET desiredHead == clampInt(floorFifteenPercent(maxLines), 10, 50)
             keepHead    == Min(desiredHead, Max(0, totalLines))
             keepTail    == Max(0, Min(totalLines - keepHead, budget - keepHead))
         IN [keepHead |-> keepHead, keepTail |-> keepTail]

\* A slip: the room left for the candidate forgets the marker's length.
hardCapNoReserve(candidate, lim) ==
  IF Len(candidate) > lim.maxChars \/ byteLength(candidate) > lim.maxBytes
    THEN LET marker == hardMarker(lim.markerPrefix, lim.maxChars, lim.maxBytes)
             sliced == slice(candidate, 0, Max(0, lim.maxChars - 2))
         IN sliced \o <<NL>> \o marker
    ELSE candidate

\* "If line-based truncation isn't enough, enforce hard char/byte caps."
hardCap(candidate, lim) ==
  IF Len(candidate) > lim.maxChars \/ byteLength(candidate) > lim.maxBytes
    THEN LET marker == hardMarker(lim.markerPrefix, lim.maxChars, lim.maxBytes)
             room   == Max(0, lim.maxChars - Len(marker) - 2)
             sliced == slice(candidate, 0, room)
         IN sliced \o <<NL>> \o marker
    ELSE candidate

truncateText(t, lim) ==
  LET bytes       == byteLength(t)
      totalLines  == countLines(t)
      withinChars == Len(t) <= lim.maxChars
      withinBytes == bytes <= lim.maxBytes
      withinLines == totalLines <= lim.maxLines
  IN IF withinChars /\ withinBytes /\ withinLines
       THEN [truncated |-> FALSE, text |-> t,
             meta |-> [totalChars |-> Len(t), totalBytes |-> bytes, totalLines |-> totalLines]]
       ELSE LET keep      == computeKeepLineCounts(totalLines, lim.maxLines)
                head      == sliceHeadLines(t, keep.keepHead, totalLines)
                tail      == sliceTailLines(t, keep.keepTail)
                omitted   == Max(0, totalLines - keep.keepHead - keep.keepTail)
                candidate == IF omitted > 0
                               THEN head \o <<NL>> \o omissionMarker(lim.markerPrefix, omitted)
                                         \o <<NL>> \o tail
                               ELSE t
            IN [truncated |-> TRUE, text |-> hardCap(candidate, lim),
                meta |-> [totalChars |-> Len(t), totalBytes |-> bytes, totalLines |-> totalLines,
                          keptHeadLines |-> keep.keepHead, keptTailLines |-> keep.keepTail,
                          omittedLines |-> omitted]]

-----------------------------------------------------------------------------
(* Orchestrator: the pieces of reduceText's results                        *)

NoCompressionMeta == [undefined |-> TRUE]

NoReturn == [kind |-> "none"]

NoKeepArgs == [totalLines |-> 0, maxLines |-> 0]

\* A slip: the post-compression snapshot and report are attached always.
compressionPartAlways(didCompress, afterCompressionMeta, cMeta) ==
  [compressed |-> afterCompressionMeta, compression |-> cMeta]

\* `...(didCompress ? {compressed: afterCompressionMeta, compression: compressionMeta} : {})`
compressionPart(didCompress, afterCompressionMeta, cMeta) ==
  IF didCompress
    THEN [compressed |-> afterCompressionMeta, compression |-> cMeta]
    ELSE <<>>

-----------------------------------------------------------------------------
(* Inputs                                                                  *)

MaxSmallLines == 4
MaxRunLen == 5
MaxBlockLen == 3
MaxRepeats == 3
MaxNumberedLines == 26
MaxWideLen == 60
MaxKeepSmall == 30
MaxKeepMaxLines == 340

DefaultBlockMaxSize == 20
DefaultMaxScanLines == 5000
DefaultMarkerPrefix == <<"-", "-", "-">>

RECURSIVE repeatSeq(_, _)
repeatSeq(s, r) == IF r <= 0 THEN <<>> ELSE s \o repeatSeq(s, r - 1)

\* Every text of 1..MaxSmallLines lines over three short lines (the empty text included).
LineAlphabet == {<<>>, <<"a">>, <<"b">>}
SmallTexts == {join(ls) : ls \in UNION {[1..n -> LineAlphabet] : n \in 1..MaxSmallLines}}

\* Runs of identical lines: X^j Y^k X^m.
RunTexts ==
  {join(repeatSeq(<<<<"X">>>>, j) \o repeatSeq(<<<<"Y">>>>, k) \o repeatSeq(<<<<"X">>>>, m)) :
     j \in 1..MaxRunLen, k \in 0..MaxRunLen, m \in 0..1}

\* A block of 2..MaxBlockLen lines repeated 1..MaxRepeats times, with optional affixes.
BlockAlphabet == {<<"a">>, <<"b">>, <<"c">>}
Affixes == {<<>>, <<<<"c">>>>}
PatternTexts ==
  {join(pre \o repeatSeq(b, r) \o post) :
     pre \in Affixes,
     b \in UNION {[1..n -> BlockAlphabet] : n \in 2..MaxBlockLen},
     r \in 1..MaxRepeats,
     post \in Affixes}

\* n distinct lines "1", "2", ..., "n".
NumberedText(n) == join([i \in 1..n |-> numberToString(i)])
NumberedTexts == {NumberedText(n) : n \in 11..MaxNumberedLines}

\* One long line of a single character, ASCII or multi-byte.
WideTexts == {[i \in 1..k |-> c] : c \in {"x", Char2, Char3}, k \in {12, 23, 24, 46, MaxWideLen}}

CompressorTexts == SmallTexts \cup RunTexts \cup PatternTexts
ReduceTexts == SmallTexts \cup RunTexts \cup NumberedTexts \cup WideTexts

MaxCharsChoices == {23, 45, 120}
MaxBytesChoices == {23, 200}
MaxLinesChoices == {1, 2, 3, 12, 23}
ScanChoices == {3, DefaultMaxScanLines}
BlockSizeChoices == {2, 3, DefaultBlockMaxSize}

Limits(mc, mb, ml, cr, bs, sl) ==
  [maxChars |-> mc, maxBytes |-> mb, maxLines |-> ml, compressRepeats |-> cr,
   compressBlockMaxSize |-> bs, compressBlockMaxScanLines |-> sl,
   markerPrefix |-> DefaultMarkerPrefix]

ReduceLimits ==
  {Limits(mc, mb, ml, cr, DefaultBlockMaxSize, sl) :
     mc \in MaxCharsChoices, mb \in MaxBytesChoices, ml \in MaxLinesChoices,
     cr \in BOOLEAN, sl \in ScanChoices}

BlockLimits ==
  {Limits(120, 200, 23, TRUE, bs, sl) : bs \in BlockSizeChoices, sl \in ScanChoices}

KeepTotalLines == (1..MaxKeepSmall) \cup {50, 100, 340, 1000}

-----------------------------------------------------------------------------
(* State machine                                                           *)

\* The sessions of the model: a top-level session and a subagent session of it.
Sessions == {"ses_main", "ses_child"}
parentID(s) == IF s = "ses_child" THEN "ses_main" ELSE "none"

\* session-auto-rename.js after the plugin was constructed, on a server that has
\* stored nothing yet.
InitPlugin ==
  /\ renamedOnce = {}
  /\ inFlight = <<>>
  /\ toastShown = {}
  /\ missingKeyToastShown = FALSE
  /\ tasks = <<>>
  /\ userMessages = [s \in Sessions |-> 0]
  /\ storedTextLen = [s \in Sessions |-> 0]
  /\ titleUpdates = [s \in Sessions |-> 0]

\* No hook call is in progress.
NoInput == [tool |-> <<>>, callID |-> <<>>]
NoOutput == [output |-> <<>>, metadata |-> [undefined |-> TRUE]]

InitReduce ==
  /\ call = "reduceText"
  /\ text \in ReduceTexts
  /\ limits \in ReduceLimits
  /\ keepArgs = NoKeepArgs

InitDup ==
  /\ call = "compressConsecutiveDuplicateLines"
  /\ text \in CompressorTexts
  /\ limits = Limits(120, 200, 23, TRUE, DefaultBlockMaxSize, DefaultMaxScanLines)
  /\ keepArgs = NoKeepArgs

InitBlock ==
  /\ call = "compressConsecutiveRepeatedBlocks"
  /\ text \in CompressorTexts
  /\ limits \in BlockLimits
  /\ keepArgs = NoKeepArgs

InitKeep ==
  /\ call = "computeKeepLineCounts"
  /\ text = <<>>
  /\ limits = Limits(120, 200, 23, TRUE, DefaultBlockMaxSize, DefaultMaxScanLines)
  /\ keepArgs \in [totalLines : KeepTotalLines, maxLines : 1..MaxKeepMaxLines]

Init ==
  /\ InitReduce \/ InitDup \/ InitBlock \/ InitKeep
  /\ pc = "start"
  /\ currentText = text
  /\ compressionMeta = NoCompressionMeta
  /\ ret = NoReturn
  /\ input = NoInput
  /\ output = NoOutput
  /\ InitPlugin

\* reduceText, entry: measure; return the text untouched when it fits.
ReduceStart ==
  /\ call = "reduceText" /\ pc = "start"
  /\ LET originalMeta == getSizeMeta(text) IN
       IF isWithinLimits(originalMeta, limits)
         THEN /\ ret' = [text |-> text, compressed |-> FALSE, truncated |-> FALSE,
                         meta |-> [original |-> originalMeta]]
              /\ pc' = "done"
              /\ UNCHANGED compressionMeta
         ELSE /\ ret' = ret
              /\ IF limits.compressRepeats
                   THEN /\ compressionMeta' =
                             [collapsedLineRuns |-> 0, collapsedLines |-> 0,
                              collapsedBlocks |-> 0, collapsedBlockRepeats |-> 0,
                              blockCompressionSkipped |-> FALSE]
                        /\ pc' = "dup"
                   ELSE /\ UNCHANGED compressionMeta
                        /\ pc' = "recheck"
  /\ currentText' = text
  /\ UNCHANGED <<call, text, limits, keepArgs>>
  /\ UNCHANGED outsideReduce

\* reduceText, duplicate-line compression of currentText.
DupStage ==
  /\ call = "reduceText" /\ pc = "dup"
  /\ LET lineCompressed == compressConsecutiveDuplicateLines(currentText, limits.markerPrefix) IN
       /\ currentText' = lineCompressed.text
       /\ compressionMeta' =
            [compressionMeta EXCEPT !.collapsedLineRuns = lineCompressed.meta.collapsedLineRuns,
                                    !.collapsedLines = lineCompressed.meta.collapsedLines]
  /\ pc' = "block"
  /\ UNCHANGED <<call, text, limits, keepArgs, ret>>
  /\ UNCHANGED outsideReduce

\* A slip: block compression is run on the input text, not on the result of the
\* duplicate-line compression.
BlockStageOnInput ==
  /\ call = "reduceText" /\ pc = "block"
  /\ LET blockCompressed ==
           compressConsecutiveRepeatedBlocks(text, limits.markerPrefix,
             limits.compressBlockMaxSize, limits.compressBlockMaxScanLines) IN
       /\ currentText' = blockCompressed.text
       /\ compressionMeta' =
            [compressionMeta EXCEPT !.collapsedBlocks = blockCompressed.meta.collapsedBlocks,
                                    !.collapsedBlockRepeats = blockCompressed.meta.collapsedBlockRepeats,
                                    !.blockCompressionSkipped = blockCompressed.meta.skipped]
  /\ pc' = "recheck"
  /\ UNCHANGED <<call, text, limits, keepArgs, ret>>
  /\ UNCHANGED outsideReduce

\* reduceText, repeated-block compression of currentText.
BlockStage ==
  /\ call = "reduceText" /\ pc = "block"
  /\ LET blockCompressed ==
           compressConsecutiveRepeatedBlocks(currentText, limits.markerPrefix,
             limits.compressBlockMaxSize, limits.compressBlockMaxScanLines) IN
       /\ currentText' = blockCompressed.text
       /\ compressionMeta' =
            [compressionMeta EXCEPT !.collapsedBlocks = blockCompressed.meta.collapsedBlocks,
                                    !.collapsedBlockRepeats = blockCompressed.meta.collapsedBlockRepeats,
                                    !.blockCompressionSkipped = blockCompressed.meta.skipped]
  /\ pc' = "recheck"
  /\ UNCHANGED <<call, text, limits, keepArgs, ret>>
  /\ UNCHANGED outsideReduce

\* reduceText, measure again; return when the compressed text fits.
Recheck ==
  /\ call = "reduceText" /\ pc = "recheck"
  /\ LET didCompress == currentText # text
         afterCompressionMeta == getSizeMeta(currentText) IN
       IF isWithinLimits(afterCompressionMeta, limits)
         THEN /\ ret' = [text |-> currentText, compressed |-> didCompress, truncated |-> FALSE,
                         meta |-> [original |-> getSizeMeta(text)]
                                    @@ compressionPart(didCompress, afterCompressionMeta, compressionMeta)]
              /\ pc' = "done"
         ELSE /\ ret' = ret
              /\ pc' = "truncate"
  /\ UNCHANGED <<call, text, limits, keepArgs, currentText, compressionMeta>>
  /\ UNCHANGED outsideReduce

\* reduceText, truncation of the text that still does not fit.
TruncateStage ==
  /\ call = "reduceText" /\ pc = "truncate"
  /\ LET didCompress == currentText # text
         afterCompressionMeta == getSizeMeta(currentText)
         truncated == truncateText(currentText, limits) IN
       ret' = [text |-> truncated.text, compressed |-> didCompress, truncated |-> TRUE,
               meta |-> [original |-> getSizeMeta(text)]
                          @@ compressionPart(didCompress, afterCompressionMeta, compressionMeta)
                          @@ [truncation |-> truncated.meta]]
  /\ pc' = "done"
  /\ UNCHANGED <<call, text, limits, keepArgs, currentText, compressionMeta>>
  /\ UNCHANGED outsideReduce

\* A direct call of compressConsecutiveDuplicateLines(text, {markerPrefix}).
CallDup ==
  /\ call = "compressConsecutiveDuplicateLines" /\ pc = "start"
  /\ ret' = compressConsecutiveDuplicateLines(text, limits.markerPrefix)
  /\ pc' = "done"
  /\ UNCHANGED <<call, text, limits, keepArgs, currentText, compressionMeta>>
  /\ UNCHANGED outsideReduce

\* A direct call of compressConsecutiveRepeatedBlocks(text, {...}).
CallBlock ==
  /\ call = "compressConsecutiveRepeatedBlocks" /\ pc = "start"
  /\ ret' = compressConsecutiveRepeatedBlocks(text, limits.markerPrefix,
              limits.compressBlockMaxSize, limits.compressBlockMaxScanLines)
  /\ pc' = "done"
  /\ UNCHANGED <<call, text, limits, keepArgs, currentText, compressionMeta>>
  /\ UNCHANGED outsideReduce

\* A direct call of computeKeepLineCounts(totalLines, maxLines).
CallKeep ==
  /\ call = "computeKeepLineCounts" /\ pc = "start"
  /\ ret' = computeKeepLineCounts(keepArgs.totalLines, keepArgs.maxLines)
  /\ pc' = "done"
  /\ UNCHANGED <<call, text, limits, keepArgs, currentText, compressionMeta>>
  /\ UNCHANGED outsideReduce

Next ==
  \/ ReduceStart
  \/ DupStage
  \/ BlockStage
  \/ Recheck
  \/ TruncateStage
  \/ CallDup
  \/ CallBlock
  \/ CallKeep

Spec == Init /\ [][Next]_vars

-----------------------------------------------------------------------------
(* The "tool.execute.after" hook                                           *)

\* reduceText as one function: the composition of the stages above.
reduceText(t, lim) ==
  LET originalMeta == getSizeMeta(t) IN
    IF isWithinLimits(originalMeta, lim)
      THEN [text |-> t, compressed |-> FALSE, truncated |-> FALSE,
            meta |-> [original |-> originalMeta]]
      ELSE
        LET lineCompressed == compressConsecutiveDuplicateLines(t, lim.markerPrefix)
            blockCompressed ==
              compressConsecutiveRepeatedBlocks(lineCompressed.text, lim.markerPrefix,
                lim.compressBlockMaxSize, lim.compressBlockMaxScanLines)
            afterText == IF lim.compressRepeats THEN blockCompressed.text ELSE t
            meta0 == IF lim.compressRepeats
                       THEN [collapsedLineRuns |-> lineCompressed.meta.collapsedLineRuns,
                             collapsedLines |-> lineCompressed.meta.collapsedLines,
                             collapsedBlocks |-> blockCompressed.meta.collapsedBlocks,
                             collapsedBlockRepeats |-> blockCompressed.meta.collapsedBlockRepeats,
                             blockCompressionSkipped |-> blockCompressed.meta.skipped]
                       ELSE NoCompressionMeta
            didCompress == afterText # t
            afterCompressionMeta == getSizeMeta(afterText)
            base == [original |-> originalMeta]
                      @@ compressionPart(didCompress, afterCompressionMeta, meta0)
        IN IF isWithinLimits(afterCompressionMeta, lim)
             THEN [text |-> afterText, compressed |-> didCompress, truncated |-> FALSE,
                   meta |-> base]
             ELSE LET truncated == truncateText(afterText, lim) IN
                    [text |-> truncated.text, compressed |-> didCompress, truncated |-> TRUE,
                     meta |-> base @@ [truncation |-> truncated.meta]]

\* Tool names and a call identifier, as characters.
ToolBash == <<"b", "a", "s", "h">>
ToolTruncatedBash == <<"t", "r", "u", "n", "c", "a", "t", "e", "d", "_", "b", "a", "s", "h">>
CallIDs == {<<"c", "1">>}

\* An absent value; { ...(x ?? {}) } of it is the empty object.
Undefined == [undefined |-> TRUE]
EmptyObject == [k \in {} |-> k]
orEmpty(x) == IF x = Undefined THEN EmptyObject ELSE x

\* { ...a, ...b }: the keys of both, b's value where both have the key.
spread(a, b) == [k \in DOMAIN a \cup DOMAIN b |-> IF k \in DOMAIN b THEN b[k] ELSE a[k]]

\* A JavaScript boolean stored where an object may be stored as well.
Bool(b) == [boolean |-> b]

\* `originalLines=N originalBytes=M` and its after-compression twin.
sizeNote(label, meta) ==
  label \o <<"L", "i", "n", "e", "s", "=">> \o numberToString(meta.totalLines)
        \o <<" ">> \o label \o <<"B", "y", "t", "e", "s", "=">> \o numberToString(meta.totalBytes)

noteLines(in, reduced, lim) ==
  << <<>>,
     lim.markerPrefix \o <<" ">> \o <<"t", "o", "o", "l", " ", "o", "u", "t", "p", "u", "t", " ">>
       \o (IF reduced.truncated THEN <<"t", "r", "u", "n", "c", "a", "t", "e", "d">> ELSE <<"c", "o", "m", "p", "r", "e", "s", "s", "e", "d">>)
       \o <<" ">> \o lim.markerPrefix,
     <<"t", "o", "o", "l", "=">> \o in.tool \o <<" ">> \o <<"c", "a", "l", "l", "I", "D", "=">> \o in.callID,
     sizeNote(<<"o", "r", "i", "g", "i", "n", "a", "l">>, reduced.meta.original) >>
  \o (IF "compressed" \in DOMAIN reduced.meta
        THEN <<sizeNote(<<"a", "f", "t", "e", "r", "C", "o", "m", "p", "r", "e", "s", "s", "i", "o", "n">>, reduced.meta.compressed)>>
        ELSE <<>>)

\* The object stored under metadata.tool_output_truncator:
\* { truncated, compressed, ...reduced.meta }.
truncatorMetadata(reduced) ==
  spread([truncated |-> Bool(reduced.truncated), compressed |-> Bool(reduced.compressed)],
         reduced.meta)

HookDefaults ==
  {Limits(mc, mb, ml, TRUE, DefaultBlockMaxSize, DefaultMaxScanLines) @@ [enabled |-> e] :
     mc \in MaxCharsChoices, mb \in MaxBytesChoices, ml \in MaxLinesChoices, e \in BOOLEAN}

HookMetadata ==
  {Undefined, EmptyObject, [exitCode |-> 0],
   [exitCode |-> 0, tool_output_truncator |-> [stale |-> TRUE]]}

InitHook ==
  /\ call = "tool.execute.after"
  /\ limits \in HookDefaults
  /\ input \in [tool : {ToolBash, ToolTruncatedBash}, callID : CallIDs]
  /\ output \in [output : ReduceTexts, metadata : HookMetadata]
  /\ text = output.output
  /\ keepArgs = NoKeepArgs
  /\ pc = "start"
  /\ currentText = text
  /\ compressionMeta = NoCompressionMeta
  /\ ret = NoReturn
  /\ InitPlugin

\* "tool.execute.after": async (input, output) => { ... }; `limits` holds `defaults`.
ToolExecuteAfter ==
  /\ call = "tool.execute.after" /\ pc = "start"
  /\ pc' = "done"
  /\ IF ~limits.enabled \/ input.tool = ToolTruncatedBash
       THEN UNCHANGED <<output, ret>>
       ELSE LET reduced == reduceText(output.output, limits) IN
              /\ ret' = reduced
              /\ IF ~reduced.compressed /\ ~reduced.truncated
                   THEN UNCHANGED output
                   ELSE output' =
                          [output |-> reduced.text \o join(noteLines(input, reduced, limits)),
                           metadata |-> spread(orEmpty(output.metadata),
                                          [tool_output_truncator |-> truncatorMetadata(reduced)])]
  /\ UNCHANGED <<call, text, limits, keepArgs, currentText, compressionMeta, input>>
  /\ UNCHANGED renameVars

NextHook == ToolExecuteAfter

SpecHook == InitHook /\ [][NextHook]_vars

-----------------------------------------------------------------------------
(* session-auto-rename.js: rename a session after its first user message   *)

\* const maxAttempts = 8; OPENCODE_SESSION_AUTORENAME_MIN_CHARS, default 3.
maxAttempts == 8
minChars == 3

\* Bounds: rename tasks started in one run, user messages stored per session.
MaxTasks == 2
MaxUserMessages == 2

\* Text lengths on either side of minChars, of the stored first user message (its text
\* parts may be persisted late).
StoredLens == {0, 5}


\* getSessionIDFromEvent returns null for an event without a session id.
NoSession == "null"

\* A promise of maybeRenameOnFirstMessage: the position of its async body, the locals
\* of the body, and two observations for the properties (what the last fetch counted,
\* whether the lookup of a session that has a parent failed).
newTask(sessionID, seedLen) ==
  [sessionID |-> sessionID, seedLen |-> seedLen, pc |-> "get", attempt |-> 0,
   confirmedFirstUserMessage |-> FALSE, userTextLen |-> 0,
   counted |-> -1, lookupFailed |-> FALSE, outcome |-> "pending"]

\* A settled promise: the locals are gone, the observations stay.
doneTask(task, outcome) ==
  [newTask(task.sessionID, 0) EXCEPT !.pc = "done", !.outcome = outcome,
                                     !.lookupFailed = task.lookupFailed]

\* Map.delete(key).
mapDelete(m, k) == [x \in DOMAIN m \ {k} |-> m[x]]

\* Map.set(key, value).
mapSet(m, k, v) == [x \in DOMAIN m \cup {k} |-> IF x = k THEN v ELSE m[x]]

Live(id) == id \in 1..Len(tasks) /\ tasks[id].pc # "done"

\* finally { inFlight.delete(sessionID) }: the async body ends with an outcome.
finally(id, outcome) ==
  /\ tasks' = [tasks EXCEPT ![id] = doneTask(tasks[id], outcome)]
  /\ inFlight' = mapDelete(inFlight, tasks[id].sessionID)

\* A slip: the catch block leaves without the finally block.
catchNoFinally(id, outcome) ==
  /\ tasks' = [tasks EXCEPT ![id] = doneTask(tasks[id], outcome)]
  /\ inFlight' = inFlight
  /\ toastShown' = toastShown \cup {tasks[id].sessionID}
  /\ UNCHANGED renamedOnce

\* catch (error) { log; toast once per session } finally { ... }.
catch(id, outcome) ==
  /\ finally(id, outcome)
  /\ toastShown' = toastShown \cup {tasks[id].sessionID}
  /\ UNCHANGED renamedOnce

\* return inside try { ... } finally { ... }.
returnEarly(id, outcome) ==
  /\ finally(id, outcome)
  /\ UNCHANGED <<renamedOnce, toastShown>>

\* A slip: a session is taken for a top-level session whatever its record says.
isSubagentNever(sessionID, result) == FALSE

\* isSubagentSession: Boolean(result?.data?.parentID), false when the lookup throws.
isSubagentSession(sessionID, result) ==
  IF result = "data" THEN parentID(sessionID) # "none" ELSE FALSE

\* A slip: a call while a task is in flight starts another task.
maybeRenameNoJoin(sessionID, seedLen) ==
  IF sessionID = NoSession \/ sessionID \in renamedOnce
    THEN UNCHANGED <<renamedOnce, inFlight, toastShown, missingKeyToastShown, tasks>>
    ELSE /\ Len(tasks) < MaxTasks
         /\ tasks' = Append(tasks, newTask(sessionID, seedLen))
         /\ inFlight' = mapSet(inFlight, sessionID, Len(tasks) + 1)
         /\ UNCHANGED <<renamedOnce, toastShown, missingKeyToastShown>>

\* maybeRenameOnFirstMessage up to the first await of its async body, and
\* inFlight.set(sessionID, promise); the promise handed back is dropped by the caller
\* (void maybeRenameOnFirstMessage(...)), a call while a task is in flight hands back
\* that task's promise and starts nothing.
maybeRenameOnFirstMessage(sessionID, seedLen) ==
  IF sessionID = NoSession \/ sessionID \in renamedOnce
    THEN UNCHANGED <<renamedOnce, inFlight, toastShown, missingKeyToastShown, tasks>>
    ELSE IF sessionID \in DOMAIN inFlight
      THEN UNCHANGED <<renamedOnce, inFlight, toastShown, missingKeyToastShown, tasks>>
      ELSE /\ Len(tasks) < MaxTasks
           /\ tasks' = Append(tasks, newTask(sessionID, seedLen))
           /\ inFlight' = mapSet(inFlight, sessionID, Len(tasks) + 1)
           /\ UNCHANGED <<renamedOnce, toastShown, missingKeyToastShown>>

\* event: async ({ event }) => { ... }.
event(type, sessionID, seedLen, statusType) ==
  /\ IF type \in {"message.updated", "message.part.updated"}
       THEN IF sessionID # NoSession /\ seedLen >= minChars
              THEN maybeRenameOnFirstMessage(sessionID, seedLen)
              ELSE UNCHANGED pluginVars
       ELSE IF (type = "session.status" /\ statusType = "idle") \/ type = "session.idle"
              THEN IF sessionID # NoSession
                     THEN maybeRenameOnFirstMessage(sessionID, 0)
                     ELSE UNCHANGED pluginVars
              ELSE UNCHANGED pluginVars
  /\ UNCHANGED serverVars
  /\ UNCHANGED truncatorVars

\* The events delivered: <<type, session id, length of the user text, status type>>.
\* Message events carry user text of either length, status events a status type; an
\* event of another type and events without a session id are delivered as well.
EventInputs ==
  ({"message.updated", "message.part.updated"} \X Sessions \X {5} \X {"none"})
    \cup ({"session.status"} \X Sessions \X {0} \X {"idle"})
    \cup ({"session.idle"} \X Sessions \X {0} \X {"none"})
    \cup {<<"message.updated", "ses_main", 2, "none">>,
          <<"session.status", "ses_main", 0, "busy">>,
          <<"session.updated", "ses_main", 0, "none">>,
          <<"message.updated", NoSession, 5, "none">>,
          <<"session.idle", NoSession, 0, "none">>}

Event == \E e \in EventInputs : event(e[1], e[2], e[3], e[4])

\* await isSubagentSession(client, sessionID) settles.
GetSettles(id) ==
  /\ Live(id) /\ tasks[id].pc = "get"
  /\ \E result \in {"data", "noData", "throws"} :
       IF isSubagentSession(tasks[id].sessionID, result)
         THEN returnEarly(id, "subagent")
         ELSE /\ tasks' = [tasks EXCEPT ![id].pc = "messages",
                                        ![id].lookupFailed =
                                          (parentID(tasks[id].sessionID) # "none"
                                             /\ result # "data")]
              /\ UNCHANGED <<renamedOnce, inFlight, toastShown>>
  /\ UNCHANGED missingKeyToastShown
  /\ UNCHANGED serverVars
  /\ UNCHANGED truncatorVars

\* The code after the retry loop, up to the call of loadOpenAISettings; the loop's
\* counter is out of scope from here on.
afterLoop(id, confirmed, userTextLen, count) ==
  LET len == IF userTextLen < minChars /\ confirmed THEN tasks[id].seedLen ELSE userTextLen IN
    IF len < minChars
      THEN returnEarly(id, "short")
      ELSE /\ tasks' = [tasks EXCEPT ![id].pc = "settings",
                                     ![id].attempt = 0,
                                     ![id].confirmedFirstUserMessage = confirmed,
                                     ![id].userTextLen = len,
                                     ![id].counted = count]
           /\ UNCHANGED <<renamedOnce, inFlight, toastShown>>

\* A slip: only a session without any user message is left alone.
notFirstMessageOnlyEmpty(count) == count < 1

\* if (countUserMessages(messages) !== 1) return;
notFirstMessage(count) == count # 1

\* await client.session.messages(...) settles, inside the retry loop.
MessagesSettles(id) ==
  /\ Live(id) /\ tasks[id].pc = "messages"
  /\ \E result \in {"data", "noData", "throws"} :
       LET sid == tasks[id].sessionID
           count == IF result = "data" THEN userMessages[sid] ELSE 0
           userTextLen == IF count >= 1 THEN storedTextLen[sid] ELSE 0 IN
         IF result = "throws" THEN catch(id, "messagesError")
         ELSE IF notFirstMessage(count) THEN returnEarly(id, "count")
         ELSE IF userTextLen >= minChars THEN afterLoop(id, TRUE, userTextLen, count)
         ELSE /\ tasks' = [tasks EXCEPT ![id].pc = "sleep",
                                        ![id].confirmedFirstUserMessage = TRUE,
                                        ![id].userTextLen = userTextLen,
                                        ![id].counted = count]
              /\ UNCHANGED <<renamedOnce, inFlight, toastShown>>
  /\ UNCHANGED missingKeyToastShown
  /\ UNCHANGED serverVars
  /\ UNCHANGED truncatorVars

\* await new Promise(resolve => setTimeout(resolve, 150 + attempt * 120)) settles.
SleepDone(id) ==
  /\ Live(id) /\ tasks[id].pc = "sleep"
  /\ IF tasks[id].attempt + 1 < maxAttempts
       THEN /\ tasks' = [tasks EXCEPT ![id].pc = "messages", ![id].attempt = @ + 1]
            /\ UNCHANGED <<renamedOnce, inFlight, toastShown>>
       ELSE afterLoop(id, tasks[id].confirmedFirstUserMessage, tasks[id].userTextLen,
                      tasks[id].counted)
  /\ UNCHANGED missingKeyToastShown
  /\ UNCHANGED serverVars
  /\ UNCHANGED truncatorVars

\* await loadOpenAISettings() settles.
SettingsSettles(id) ==
  /\ Live(id) /\ tasks[id].pc = "settings"
  /\ \E result \in {"key", "missingKey", "throws"} :
       CASE result = "key" ->
              /\ tasks' = [tasks EXCEPT ![id].pc = "openai"]
              /\ UNCHANGED <<renamedOnce, inFlight, toastShown, missingKeyToastShown>>
         [] result = "missingKey" ->
              /\ missingKeyToastShown' = TRUE
              /\ catch(id, "missingKey")
         [] result = "throws" ->
              /\ catch(id, "configError")
              /\ UNCHANGED missingKeyToastShown
  /\ UNCHANGED serverVars
  /\ UNCHANGED truncatorVars

\* await openaiGenerateTitleFromText(...) settles.
OpenAISettles(id) ==
  /\ Live(id) /\ tasks[id].pc = "openai"
  /\ \E result \in {"title", "noTitle", "throws"} :
       CASE result = "title" ->
              /\ tasks' = [tasks EXCEPT ![id].pc = "update"]
              /\ UNCHANGED <<renamedOnce, inFlight, toastShown>>
         [] result = "noTitle" -> returnEarly(id, "noTitle")
         [] result = "throws" -> catch(id, "openaiError")
  /\ UNCHANGED missingKeyToastShown
  /\ UNCHANGED serverVars
  /\ UNCHANGED truncatorVars

\* await client.session.update(...) settles; renamedOnce.add(sessionID) on success.
UpdateSettles(id) ==
  /\ Live(id) /\ tasks[id].pc = "update"
  /\ \E result \in {"ok", "throws"} :
       IF result = "ok"
         THEN /\ titleUpdates' = [titleUpdates EXCEPT ![tasks[id].sessionID] = @ + 1]
              /\ renamedOnce' = renamedOnce \cup {tasks[id].sessionID}
              /\ finally(id, "renamed")
              /\ UNCHANGED toastShown
         ELSE /\ catch(id, "updateError")
              /\ UNCHANGED titleUpdates
  /\ UNCHANGED <<missingKeyToastShown, userMessages, storedTextLen>>
  /\ UNCHANGED truncatorVars

\* The server stores one more user message of a session; the first one with or
\* without its text parts.
UserMessageStored(s) ==
  /\ userMessages[s] < MaxUserMessages
  /\ userMessages' = [userMessages EXCEPT ![s] = @ + 1]
  /\ IF userMessages[s] = 0
       THEN \E len \in StoredLens : storedTextLen' = [storedTextLen EXCEPT ![s] = len]
       ELSE UNCHANGED storedTextLen
  /\ UNCHANGED <<titleUpdates, pluginVars>>
  /\ UNCHANGED truncatorVars

\* The server persists the text parts of a session's first user message.
TextPersisted(s) ==
  /\ userMessages[s] >= 1 /\ storedTextLen[s] < minChars
  /\ \E len \in StoredLens :
       /\ len >= minChars
       /\ storedTextLen' = [storedTextLen EXCEPT ![s] = len]
  /\ UNCHANGED <<userMessages, titleUpdates, pluginVars>>
  /\ UNCHANGED truncatorVars

\* One awaited call of a rename task settles.
Settles(id) ==
  \/ GetSettles(id)
  \/ MessagesSettles(id)
  \/ SleepDone(id)
  \/ SettingsSettles(id)
  \/ OpenAISettles(id)
  \/ UpdateSettles(id)

InitRename ==
  /\ call = "event"
  /\ text = <<>>
  /\ limits = Limits(120, 200, 23, TRUE, DefaultBlockMaxSize, DefaultMaxScanLines)
  /\ keepArgs = NoKeepArgs
  /\ pc = "done"
  /\ currentText = text
  /\ compressionMeta = NoCompressionMeta
  /\ ret = NoReturn
  /\ input = NoInput
  /\ output = NoOutput
  /\ InitPlugin

NextRename ==
  \/ Event
  \/ \E id \in 1..MaxTasks : Settles(id)
  \/ \E s \in Sessions : UserMessageStored(s)
  \/ \E s \in Sessions : TextPersisted(s)

SpecRename == InitRename /\ [][NextRename]_vars

\* Every awaited call of every rename task eventually settles.
SpecRenameFair ==
  InitRename /\ [][NextRename]_vars /\ \A id \in 1..MaxTasks : WF_vars(Settles(id))

-----------------------------------------------------------------------------
(* Measures and line structure restated for the properties, without the    *)
(* loops of the source                                                     *)

RefNewlines(t) == {i \in 1..Len(t) : t[i] = NL}

RefLineCount(t) == Cardinality(RefNewlines(t)) + 1

RefBytes(t) ==
  Len(t) + Cardinality({i \in 1..Len(t) : t[i] = Char2})
         + 2 * Cardinality({i \in 1..Len(t) : t[i] = Char3})

\* Position of the k-th newline of t; 0 for k = 0 and Len(t) + 1 past the last one.
RefNewlineAt(t, k) ==
  IF k = 0 THEN 0
  ELSE IF k > Cardinality(RefNewlines(t)) THEN Len(t) + 1
  ELSE CHOOSE p \in RefNewlines(t) : Cardinality({q \in RefNewlines(t) : q <= p}) = k

\* The lines of t: what lies between consecutive newlines.
RefSplit(t) ==
  [k \in 1..RefLineCount(t) |-> SubSeq(t, RefNewlineAt(t, k - 1) + 1, RefNewlineAt(t, k) - 1)]

RefWithin(t, lim) ==
  /\ Len(t) <= lim.maxChars
  /\ RefBytes(t) <= lim.maxBytes
  /\ RefLineCount(t) <= lim.maxLines

ReduceDone == call = "reduceText" /\ pc = "done"

-----------------------------------------------------------------------------
(* Properties of reduceText's result                                       *)

\* C1: a text already within the three limits is returned exactly as it came, with
\* compressed = false and truncated = false; and whenever both flags are false the
\* returned text is the input.
C1_NoOpIdentity ==
  ReduceDone =>
    /\ RefWithin(text, limits) => (ret.text = text /\ ~ret.compressed /\ ~ret.truncated)
    /\ (~ret.compressed /\ ~ret.truncated) => ret.text = text

\* A text with as many lines as maxLines allows, returned untouched.
C1_Witness ==
  /\ ReduceDone
  /\ RefWithin(text, limits)
  /\ RefLineCount(text) = limits.maxLines /\ limits.maxLines > 1
  /\ ret.text = text /\ ~ret.compressed /\ ~ret.truncated

\* C2: with maxChars, maxBytes and maxLines each at least len(markerPrefix) + 20, the
\* returned text has at most maxChars characters and at most maxBytes UTF-8 bytes.
C2_BudgetSatisfaction ==
  (/\ ReduceDone
   /\ limits.maxChars >= Len(limits.markerPrefix) + 20
   /\ limits.maxBytes >= Len(limits.markerPrefix) + 20
   /\ limits.maxLines >= Len(limits.markerPrefix) + 20)
  => (Len(ret.text) <= limits.maxChars /\ RefBytes(ret.text) <= limits.maxBytes)

\* C3: the returned text has at most maxLines lines.
C3_LineBudget ==
  ReduceDone => RefLineCount(ret.text) <= limits.maxLines

\* C4: when the result is compressed or truncated, the returned text has no more
\* UTF-8 bytes than the input.
C4_NeverGrows ==
  (ReduceDone /\ (ret.compressed \/ ret.truncated)) => RefBytes(ret.text) <= RefBytes(text)

\* C5: meta.original is always there and is the input's size snapshot; meta.compressed
\* and meta.compression are there exactly when compression ran and changed the text,
\* which is exactly when compressed = true; meta.truncation, with its three counts, is
\* there exactly when truncated = true.
C5_MetaPresence ==
  ReduceDone =>
    LET changed == limits.compressRepeats /\ ~RefWithin(text, limits) /\ currentText # text IN
      /\ "original" \in DOMAIN ret.meta
      /\ ret.meta.original =
           [totalChars |-> Len(text), totalBytes |-> RefBytes(text),
            totalLines |-> RefLineCount(text)]
      /\ ret.compressed <=> changed
      /\ ("compressed" \in DOMAIN ret.meta) <=> changed
      /\ ("compression" \in DOMAIN ret.meta) <=> changed
      /\ changed =>
           /\ ret.meta.compressed =
                [totalChars |-> Len(currentText), totalBytes |-> RefBytes(currentText),
                 totalLines |-> RefLineCount(currentText)]
           /\ ret.meta.compression = compressionMeta
      /\ ("truncation" \in DOMAIN ret.meta) <=> ret.truncated
      /\ ret.truncated =>
           {"keptHeadLines", "keptTailLines", "omittedLines"} \subseteq DOMAIN ret.meta.truncation
      /\ DOMAIN ret.meta \subseteq {"original", "compressed", "compression", "truncation"}

\* A result that was truncated without any compression having changed the text, under
\* compressRepeats = true.
C5_Witness ==
  /\ ReduceDone
  /\ limits.compressRepeats /\ ~ret.compressed /\ ret.truncated
  /\ DOMAIN ret.meta = {"original", "truncation"}

-----------------------------------------------------------------------------
(* Properties of the duplicate-line compressor                             *)

DupDone == call = "compressConsecutiveDuplicateLines" /\ pc = "done"

\* The indices at which a maximal run of identical lines begins.
RefRunStarts(ls) == {i \in 1..Len(ls) : i = 1 \/ ls[i - 1] # ls[i]}

\* Length of the maximal run that begins at i.
RefRunLen(ls, i) ==
  (CHOOSE j \in (i + 1)..(Len(ls) + 1) :
     /\ j = Len(ls) + 1 \/ j \in RefRunStarts(ls)
     /\ \A k \in (i + 1)..(j - 1) : k \notin RefRunStarts(ls)) - i

\* Each run, in order: its line once, and a marker counting the n - 1 others if n >= 2.
RECURSIVE RefDupOut(_, _, _)
RefDupOut(ls, i, markerPrefix) ==
  IF i > Len(ls) THEN <<>>
  ELSE LET n == RefRunLen(ls, i) IN
         (IF n >= 2 THEN <<ls[i], repeatLineMarker(markerPrefix, n - 1)>> ELSE <<ls[i]>>)
           \o RefDupOut(ls, i + n, markerPrefix)

\* C6: every maximal run of n >= 2 identical consecutive lines, the last run included,
\* becomes the line once plus the marker "repeated previous line <n-1> more times";
\* runs of length 1 and non-consecutive duplicates stay as they are;
\* collapsedLineRuns counts the runs with n >= 2 and collapsedLines sums their n - 1;
\* the empty text comes back unchanged with zero counts.
C6_DuplicateRuns ==
  DupDone =>
    LET ls == RefSplit(text)
        repeated == {i \in RefRunStarts(ls) : RefRunLen(ls, i) >= 2} IN
      /\ ret.text = join(RefDupOut(ls, 1, limits.markerPrefix))
      /\ ret.meta.collapsedLineRuns = Cardinality(repeated)
      /\ ret.meta.collapsedLines = Len(ls) - Cardinality(RefRunStarts(ls))
      /\ Len(text) = 0 =>
           ret = [text |-> <<>>, meta |-> [collapsedLineRuns |-> 0, collapsedLines |-> 0]]

\* Five lines "X" give "X" and the marker with count 4.
C6_Witness ==
  /\ DupDone
  /\ text = <<"X", NL, "X", NL, "X", NL, "X", NL, "X">>
  /\ ret.text = <<"X", NL>> \o <<"-", "-", "-", " ", "r", "e", "p", "e", "a", "t", "e", "d", " ", "p", "r", "e", "v", "i", "o", "u", "s", " ", "l", "i", "n", "e", " ", "4", " ", "m", "o", "r", "e", " ", "t", "i", "m", "e", "s", " ", "-", "-", "-">>
  /\ ret.meta = [collapsedLineRuns |-> 1, collapsedLines |-> 4]

-----------------------------------------------------------------------------
(* Properties of the repeated-block compressor                             *)

BlockDone == call = "compressConsecutiveRepeatedBlocks" /\ pc = "done"

\* The c-th copy (c = 0 is the block itself) of the size-s block at 0-based index i.
RefBlockAt(ls, i, s, c) == SubSeq(ls, i + c * s + 1, i + (c + 1) * s)

RefSetMax(S) == CHOOSE x \in S : \A y \in S : y <= x

\* The block sizes in range whose block at i is followed by a copy of itself.
RefMatchSizes(ls, i, maxBlockSize) ==
  {s \in 2..Min(maxBlockSize, (Len(ls) - i) \div 2) :
     RefBlockAt(ls, i, s, 0) = RefBlockAt(ls, i, s, 1)}

\* The maximal number of consecutive copies of the size-s block at i.
RefCopies(ls, i, s) ==
  RefSetMax({r \in 2..((Len(ls) - i) \div s) :
               \A c \in 1..(r - 1) : RefBlockAt(ls, i, s, c) = RefBlockAt(ls, i, s, 0)})

RECURSIVE RefBlockWalk(_, _, _, _)
RefBlockWalk(ls, i, maxBlockSize, markerPrefix) ==
  IF i >= Len(ls) THEN [out |-> <<>>, collapsedBlocks |-> 0, collapsedBlockRepeats |-> 0]
  ELSE LET sizes == RefMatchSizes(ls, i, maxBlockSize) IN
    IF sizes = {}
      THEN LET rest == RefBlockWalk(ls, i + 1, maxBlockSize, markerPrefix) IN
             [rest EXCEPT !.out = <<ls[i + 1]>> \o @]
      ELSE LET s == RefSetMax(sizes)
               r == RefCopies(ls, i, s)
               rest == RefBlockWalk(ls, i + r * s, maxBlockSize, markerPrefix) IN
             [out |-> RefBlockAt(ls, i, s, 0) \o <<repeatBlockMarker(markerPrefix, s, r - 1)>>
                        \o rest.out,
              collapsedBlocks |-> rest.collapsedBlocks + 1,
              collapsedBlockRepeats |-> rest.collapsedBlockRepeats + (r - 1)]

\* C7: walking left to right, at index i the largest block size s in
\* [2, min(maxBlockSize, floor(remaining / 2))] whose block is followed by a copy of
\* itself is taken, with the maximal number r >= 2 of consecutive copies; the block is
\* emitted once with the marker "repeated previous <s> lines <r-1> more times", i
\* advances by r * s, collapsedBlocks grows by 1 and collapsedBlockRepeats by r - 1;
\* when no size matches, lines[i] is emitted and i advances by 1.
C7_BlockWalk ==
  (BlockDone /\ RefLineCount(text) <= limits.compressBlockMaxScanLines) =>
    LET walk == RefBlockWalk(RefSplit(text), 0, limits.compressBlockMaxSize, limits.markerPrefix) IN
      /\ ret.text = join(walk.out)
      /\ ret.meta.collapsedBlocks = walk.collapsedBlocks
      /\ ret.meta.collapsedBlockRepeats = walk.collapsedBlockRepeats

\* Lines [a,b,a,b,a,b,c] become [a, b, marker(2 lines, 2 more times), c].
C7_Witness ==
  /\ BlockDone
  /\ text = <<"a", NL, "b", NL, "a", NL, "b", NL, "a", NL, "b", NL, "c">>
  /\ ret.text = <<"a", NL, "b", NL>>
                  \o <<"-", "-", "-", " ", "r", "e", "p", "e", "a", "t", "e", "d", " ", "p", "r", "e", "v", "i", "o", "u", "s", " ", "2", " ", "l", "i", "n", "e", "s", " ", "2", " ", "m", "o", "r", "e", " ", "t", "i", "m", "e", "s", " ", "-", "-", "-">>
                  \o <<NL, "c">>
  /\ ret.meta.collapsedBlocks = 1 /\ ret.meta.collapsedBlockRepeats = 2

\* C8: a text with more lines than maxScanLines comes back unchanged with
\* skipped = true and both counts 0, whatever repetition it holds; a text with at most
\* maxScanLines lines gives skipped = false; reduceText copies the flag into
\* compression.blockCompressionSkipped.
C8_ScanGuard ==
  /\ BlockDone =>
       IF RefLineCount(text) > limits.compressBlockMaxScanLines
         THEN ret = [text |-> text,
                     meta |-> [collapsedBlocks |-> 0, collapsedBlockRepeats |-> 0,
                               skipped |-> TRUE]]
         ELSE ret.meta.skipped = FALSE
  /\ (call = "reduceText" /\ pc \in {"recheck", "truncate", "done"}
        /\ "undefined" \notin DOMAIN compressionMeta) =>
       LET afterDup == compressConsecutiveDuplicateLines(text, limits.markerPrefix).text
           skip == RefLineCount(afterDup) > limits.compressBlockMaxScanLines IN
         /\ compressionMeta.blockCompressionSkipped = skip
         /\ (pc = "done" /\ ret.compressed) => ret.meta.compression.blockCompressionSkipped = skip

\* A text holding a repeated block, too long for the scan, returned as it came.
C8_Witness ==
  /\ BlockDone
  /\ RefLineCount(text) > limits.compressBlockMaxScanLines
  /\ RefMatchSizes(RefSplit(text), 0, limits.compressBlockMaxSize) # {}
  /\ ret.text = text /\ ret.meta.skipped

-----------------------------------------------------------------------------
(* Properties of the head/tail line counts                                 *)

KeepDone == call = "computeKeepLineCounts" /\ pc = "done"

RefFloorFifteenPercent(m) == CHOOSE k \in 0..m : 100 * k <= 15 * m /\ 15 * m < 100 * (k + 1)

RefClamp(v, lo, hi) == IF v < lo THEN lo ELSE IF v > hi THEN hi ELSE v

RefKeptHead(totalLines, maxLines) ==
  Min(RefClamp(RefFloorFifteenPercent(maxLines), 10, 50), totalLines)

RefKeptTail(totalLines, maxLines) ==
  Max(0, Min(totalLines - RefKeptHead(totalLines, maxLines),
             (maxLines - 1) - RefKeptHead(totalLines, maxLines)))

\* C9: when line truncation runs on totalLines lines with maxLines >= 2, it reports
\* keptHeadLines = min(clamp(floor(maxLines * 0.15), 10, 50), totalLines),
\* keptTailLines = max(0, min(totalLines - keptHeadLines, (maxLines - 1) - keptHeadLines))
\* and omittedLines = totalLines - keptHeadLines - keptTailLines; 1000 lines with
\* maxLines = 100 give 15 head and 84 tail lines.
C9_KeepCounts ==
  /\ (KeepDone /\ keepArgs.maxLines >= 2) =>
       /\ ret.keepHead = RefKeptHead(keepArgs.totalLines, keepArgs.maxLines)
       /\ ret.keepTail = RefKeptTail(keepArgs.totalLines, keepArgs.maxLines)
       /\ (keepArgs.totalLines = 1000 /\ keepArgs.maxLines = 100) =>
            (ret.keepHead = 15 /\ ret.keepTail = 84)
  /\ (ReduceDone /\ ret.truncated /\ limits.maxLines >= 2) =>
       LET totalLines == RefLineCount(currentText)
           tr == ret.meta.truncation IN
         /\ tr.keptHeadLines = RefKeptHead(totalLines, limits.maxLines)
         /\ tr.keptTailLines = RefKeptTail(totalLines, limits.maxLines)
         /\ tr.omittedLines = totalLines - tr.keptHeadLines - tr.keptTailLines
         /\ tr.omittedLines >= 0

\* A text of more than 23 lines truncated under maxLines = 23: 10 head, 12 tail lines.
C9_Witness ==
  /\ ReduceDone /\ ret.truncated /\ limits.maxLines = 23
  /\ ret.meta.truncation.keptHeadLines = 10
  /\ ret.meta.truncation.keptTailLines = 12
  /\ ret.meta.truncation.omittedLines = RefLineCount(currentText) - 22
  /\ ret.meta.truncation.omittedLines > 0

\* C10: whenever line truncation omits lines, keptTailLines > keptHeadLines and
\* keptHeadLines >= 1, for every positive maxLines and every totalLines.
C10_TailBias ==
  (ReduceDone /\ ret.truncated /\ ret.meta.truncation.omittedLines > 0) =>
    /\ ret.meta.truncation.keptTailLines > ret.meta.truncation.keptHeadLines
    /\ ret.meta.truncation.keptHeadLines >= 1

-----------------------------------------------------------------------------
(* Properties of reduceText's stages, of the hard cap and of the line window *)

\* C14: reduceText runs its stages in a fixed order.  Over a limit with
\* compressRepeats = true: duplicate-line compression of the input, then block
\* compression of that result; a compressed text within the limits is returned as it is
\* with truncated = false and truncation never runs; truncation and the hard cap run
\* only on the post-compression text and only when it still exceeds a limit, and then
\* truncated = true.  With compressRepeats = false no compressor runs and
\* compressed = false in every result.
C14_StageOrder ==
  [][call = "reduceText" =>
       /\ pc = "start" =>
            /\ (pc' = "done") <=> RefWithin(text, limits)
            /\ (pc' = "dup") <=> (~RefWithin(text, limits) /\ limits.compressRepeats)
            /\ (pc' = "recheck") <=> (~RefWithin(text, limits) /\ ~limits.compressRepeats)
            /\ currentText' = text
       /\ pc = "dup" =>
            /\ pc' = "block"
            /\ currentText' = compressConsecutiveDuplicateLines(text, limits.markerPrefix).text
       /\ pc = "block" =>
            /\ pc' = "recheck"
            /\ currentText' =
                 compressConsecutiveRepeatedBlocks(
                   compressConsecutiveDuplicateLines(text, limits.markerPrefix).text,
                   limits.markerPrefix, limits.compressBlockMaxSize,
                   limits.compressBlockMaxScanLines).text
       /\ pc = "recheck" =>
            /\ currentText' = currentText
            /\ IF RefWithin(currentText, limits)
                 THEN pc' = "done" /\ ret'.text = currentText /\ ~ret'.truncated
                 ELSE pc' = "truncate"
       /\ pc = "truncate" =>
            /\ ~RefWithin(currentText, limits)
            /\ pc' = "done" /\ ret'.truncated
            /\ ret'.text = truncateText(currentText, limits).text
       /\ pc = "done" => FALSE
       /\ ~limits.compressRepeats =>
            /\ currentText' = text
            /\ pc' \notin {"dup", "block"}
            /\ pc' = "done" => ~ret'.compressed
  ]_vars

\* Compression alone brought the text within the limits: no truncation.
C14_Witness ==
  /\ ReduceDone /\ limits.compressRepeats
  /\ ret.compressed /\ ~ret.truncated
  /\ ret.text = currentText /\ currentText # text

\* The first h and the last t lines of a text, each joined by "\n".
RefHeadText(t, h) == join(SubSeq(RefSplit(t), 1, h))

RefTailText(t, k) == join(SubSeq(RefSplit(t), RefLineCount(t) - k + 1, RefLineCount(t)))

\* What line truncation hands to the hard cap, from the reported counts.
RefCandidate ==
  LET tr == ret.meta.truncation IN
    IF tr.omittedLines > 0
      THEN RefHeadText(currentText, tr.keptHeadLines)
             \o <<NL>> \o omissionMarker(limits.markerPrefix, tr.omittedLines) \o <<NL>>
             \o RefTailText(currentText, tr.keptTailLines)
      ELSE currentText

RefOverCaps == Len(RefCandidate) > limits.maxChars \/ RefBytes(RefCandidate) > limits.maxBytes

\* C15: the hard cap runs exactly when the line-truncated candidate has more than
\* maxChars characters or more than maxBytes bytes; the result is then the first
\* room = max(0, maxChars - len(marker) - 2) characters of the candidate, "\n" and the
\* marker "truncated to <maxChars> chars / <maxBytes> bytes"; and it has at most
\* maxChars characters whenever maxChars >= len(marker) + 2.
C15_HardCap ==
  (ReduceDone /\ ret.truncated) =>
    LET marker == hardMarker(limits.markerPrefix, limits.maxChars, limits.maxBytes)
        room == IF limits.maxChars - Len(marker) - 2 > 0
                  THEN limits.maxChars - Len(marker) - 2 ELSE 0
        candidate == RefCandidate
        capRuns == Len(candidate) > limits.maxChars \/ RefBytes(candidate) > limits.maxBytes IN
      /\ ~capRuns => ret.text = candidate
      /\ capRuns =>
           /\ ret.text = SubSeq(candidate, 1, Min(room, Len(candidate))) \o <<NL>> \o marker
           /\ limits.maxChars >= Len(marker) + 2 => Len(ret.text) <= limits.maxChars

\* A line of 46 characters under maxChars = 45: two characters and the marker remain.
C15_Witness ==
  /\ ReduceDone /\ ret.truncated
  /\ limits.maxChars = 45 /\ limits.maxBytes = 200
  /\ Len(currentText) = 46
  /\ ret.text = <<"x", "x", NL>> \o <<"-", "-", "-", " ", "t", "r", "u", "n", "c", "a", "t", "e", "d", " ", "t", "o", " ", "4", "5", " ", "c", "h", "a", "r", "s", " ", "/", " ", "2", "0", "0", " ", "b", "y", "t", "e", "s", " ", "-", "-", "-">>

\* C16: whenever the result is truncated and lines were omitted, the returned text is
\* exactly the first keptHeadLines lines of the post-compression text, then the line
\* "omitted <o> lines", then its last keptTailLines lines.
C16_LineWindow ==
  (ReduceDone /\ ret.truncated /\ ret.meta.truncation.omittedLines > 0) =>
    LET tr == ret.meta.truncation
        ls == RefSplit(currentText) IN
      RefSplit(ret.text) =
        SubSeq(ls, 1, tr.keptHeadLines)
          \o <<omissionMarker(limits.markerPrefix, tr.omittedLines)>>
          \o SubSeq(ls, Len(ls) - tr.keptTailLines + 1, Len(ls))

\* C16, amended: the same when the candidate fits maxChars and maxBytes, so that the
\* hard cap does not run; the text is then head, "\n", the omission line, "\n", tail,
\* where head is the first keptHeadLines lines and tail the last keptTailLines lines,
\* each the empty string when the count is 0.  With both counts at least 1 the lines
\* of the result are those lines around the omission line and the result ends with
\* the input's final line; with nothing omitted no omission line is inserted.
C16_LineWindowUncapped ==
  (ReduceDone /\ ret.truncated) =>
    LET tr == ret.meta.truncation
        ls == RefSplit(currentText)
        candidate == RefCandidate
        capRuns == Len(candidate) > limits.maxChars \/ RefBytes(candidate) > limits.maxBytes
        window == SubSeq(ls, 1, tr.keptHeadLines)
                    \o <<omissionMarker(limits.markerPrefix, tr.omittedLines)>>
                    \o SubSeq(ls, Len(ls) - tr.keptTailLines + 1, Len(ls)) IN
      ~capRuns =>
        /\ tr.omittedLines > 0 =>
             /\ ret.text = candidate
             /\ (tr.keptHeadLines >= 1 /\ tr.keptTailLines >= 1) =>
                  /\ RefSplit(ret.text) = window
                  /\ RefSplit(ret.text)[RefLineCount(ret.text)] = ls[Len(ls)]
        /\ tr.omittedLines = 0 => ret.text = currentText

\* 26 numbered lines under maxLines = 23: lines 1..10, the omission line, lines 15..26.
C16_Witness ==
  /\ ReduceDone /\ ret.truncated /\ ~RefOverCaps
  /\ limits.maxLines = 23
  /\ currentText = NumberedText(26)
  /\ RefSplit(ret.text) =
       [i \in 1..10 |-> numberToString(i)]
         \o <<<<"-", "-", "-", " ", "o", "m", "i", "t", "t", "e", "d", " ", "4", " ", "l", "i", "n", "e", "s", " ", "-", "-", "-">>>>
         \o [i \in 1..12 |-> numberToString(i + 14)]

-----------------------------------------------------------------------------
(* Properties of the "tool.execute.after" hook                             *)

\* The step machine of reduceText and the function reduceText agree.
ReduceTextAgrees == ReduceDone => ret = reduceText(text, limits)

HookSkips ==
  \/ ~limits.enabled
  \/ input.tool = ToolTruncatedBash
  \/ LET reduced == reduceText(output.output, limits) IN
       ~reduced.compressed /\ ~reduced.truncated

\* C17: the hook leaves output.output and output.metadata unchanged when the plugin is
\* disabled, when input.tool is "truncated_bash", or when reduceText reports neither
\* compressed nor truncated; otherwise output.output becomes the reduced text plus the
\* note block, and output.metadata.tool_output_truncator holds the flags truncated and
\* compressed and the size metadata, every other metadata key keeping its value.
C17_HookFrame ==
  [][(call = "tool.execute.after" /\ pc = "start") =>
       IF HookSkips
         THEN output' = output
         ELSE LET reduced == reduceText(output.output, limits)
                  tot == output'.metadata.tool_output_truncator
                  before == orEmpty(output.metadata) IN
                /\ output'.output = reduced.text \o join(noteLines(input, reduced, limits))
                /\ DOMAIN output'.metadata = DOMAIN before \cup {"tool_output_truncator"}
                /\ \A k \in DOMAIN before \ {"tool_output_truncator"} :
                     output'.metadata[k] = before[k]
                /\ tot.truncated = Bool(reduced.truncated)
                /\ tot.compressed = Bool(reduced.compressed)
                /\ tot.original = reduced.meta.original
                /\ reduced.truncated => tot.truncation = reduced.meta.truncation
  ]_vars

\* The same with the compressed flag left out: everything else the claim says holds.
HookFrameButCompressedFlag ==
  [][(call = "tool.execute.after" /\ pc = "start") =>
       IF HookSkips
         THEN output' = output
         ELSE LET reduced == reduceText(output.output, limits)
                  tot == output'.metadata.tool_output_truncator
                  before == orEmpty(output.metadata) IN
                /\ output'.output = reduced.text \o join(noteLines(input, reduced, limits))
                /\ DOMAIN output'.metadata = DOMAIN before \cup {"tool_output_truncator"}
                /\ \A k \in DOMAIN before \ {"tool_output_truncator"} :
                     output'.metadata[k] = before[k]
                /\ tot.truncated = Bool(reduced.truncated)
                /\ tot.compressed = IF reduced.compressed THEN reduced.meta.compressed
                                                         ELSE Bool(FALSE)
                /\ tot.original = reduced.meta.original
                /\ reduced.truncated => tot.truncation = reduced.meta.truncation
  ]_vars

\* Five lines "X" under maxLines = 3: compressed, and the flag is the size record.
HookCompressedState ==
  /\ call = "tool.execute.after" /\ pc = "done"
  /\ text = join(repeatSeq(<<<<"X">>>>, 5))
  /\ limits.enabled /\ limits.maxLines = 3 /\ limits.maxChars = 120
  /\ input.tool = ToolBash
  /\ output.metadata.tool_output_truncator.compressed =
       [totalChars |-> 45, totalBytes |-> 45, totalLines |-> 2]
  /\ "exitCode" \in DOMAIN output.metadata => output.metadata.exitCode = 0

-----------------------------------------------------------------------------
(* Properties of the session rename tasks                                  *)

TaskIds == 1..Len(tasks)
LiveSessions == {tasks[id].sessionID : id \in {i \in TaskIds : tasks[i].pc # "done"}}

\* The step starts a rename task for session s.
RefStarts(s) == Len(tasks') = Len(tasks) + 1 /\ tasks'[Len(tasks')].sessionID = s

\* In the step, task id issues client.session.update.
RefIssuesUpdate(id) == id \in TaskIds /\ tasks[id].pc # "update" /\ tasks'[id].pc = "update"

\* C11: under any interleaving of message and idle events for a session, also while a
\* rename task awaits the client, client.session.update completes successfully at most
\* once per session: no task is started for a session that has a task in flight (the
\* call joins it) or that was renamed (the call is a no-op), and at most one task per
\* session is live.
C11_RenameOnce ==
  /\ [](\A s \in Sessions : titleUpdates[s] <= 1)
  /\ [](\A i, j \in TaskIds :
          (i # j /\ tasks[i].pc # "done" /\ tasks[j].pc # "done")
            => tasks[i].sessionID # tasks[j].sessionID)
  /\ [][\A s \in Sessions :
          RefStarts(s) => (s \notin DOMAIN inFlight /\ s \notin renamedOnce
                            /\ titleUpdates[s] = 0)]_vars
  /\ [][\A s \in Sessions :
          (s \in DOMAIN inFlight \/ s \in renamedOnce) =>
             \A id \in TaskIds : tasks[id].sessionID = s /\ tasks[id].pc = "done"
                                   => tasks'[id] = tasks[id]]_vars

\* The main session was renamed by the first task while a second task could still be
\* started: one update, nothing in flight.
C11_Witness ==
  /\ titleUpdates["ses_main"] = 1 /\ "ses_main" \in renamedOnce
  /\ Len(tasks) = 1 /\ tasks[1].outcome = "renamed"
  /\ inFlight = <<>>
  /\ userMessages["ses_main"] = 1

\* C12: client.session.update is never issued for a session with zero or with two or
\* more user messages, also when user messages are stored between the task's count
\* check and its update call.
C12_ExactlyOneAtUpdate ==
  [][\A id \in TaskIds :
       RefIssuesUpdate(id) => userMessages[tasks[id].sessionID] = 1]_vars

\* C12, amended: a task goes on from a messages fetch only when the fetch counted
\* exactly one user message, and it issues the update only after such a fetch; the
\* session then has at least one user message, and it may have more, stored after
\* the fetch.
C12_ExactlyOneAtFetch ==
  /\ [][\A id \in TaskIds :
          (tasks[id].pc = "messages" /\ tasks'[id].pc \notin {"messages", "done"})
            => (userMessages[tasks[id].sessionID] = 1 /\ tasks'[id].counted = 1)]_vars
  /\ [][\A id \in TaskIds :
          RefIssuesUpdate(id)
            => (tasks[id].counted = 1 /\ userMessages[tasks[id].sessionID] >= 1)]_vars
  /\ [](\A id \in TaskIds :
          tasks[id].pc \in {"sleep", "settings", "openai", "update"} => tasks[id].counted = 1)

\* An update in flight for a session that got its second user message after the fetch.
C12_Witness ==
  \E id \in TaskIds :
    /\ tasks[id].pc = "update" /\ tasks[id].counted = 1
    /\ userMessages[tasks[id].sessionID] = 2

C18_InFlightReleased ==
  /\ \A s \in Sessions : (s \in DOMAIN inFlight) ~> (s \notin DOMAIN inFlight)
  /\ [](DOMAIN inFlight = LiveSessions)
  /\ [](\A s \in DOMAIN inFlight : inFlight[s] \in TaskIds /\ tasks[inFlight[s]].sessionID = s
                                     /\ tasks[inFlight[s]].pc # "done")
  /\ [](renamedOnce = {s \in Sessions : titleUpdates[s] > 0})
  /\ [][\A s \in Sessions :
          (s \in renamedOnce' /\ s \notin renamedOnce) =>
             \E id \in TaskIds : /\ tasks[id].sessionID = s /\ tasks[id].pc = "update"
                                 /\ tasks'[id].outcome = "renamed"]_vars

\* A first task for the main session failed on the missing API key; a second task,
\* started by a later event, is running.
C18_Witness ==
  /\ Len(tasks) = 2
  /\ tasks[1].sessionID = "ses_main" /\ tasks[1].outcome = "missingKey"
  /\ tasks[2].sessionID = "ses_main" /\ tasks[2].pc = "settings"
  /\ inFlight = [s \in {"ses_main"} |-> 2]
  /\ renamedOnce = {} /\ missingKeyToastShown /\ toastShown = {"ses_main"}

====
